---- MODULE Spec2Model ----
(***************************************************************************)
(* Model of the domain-driven core of simple-financial-instruments:        *)
(* the exchange-rate service, the Asset / Portfolio models, the YAML       *)
(* repository loader and the AssetManagementService analysis.              *)
(*                                                                         *)
(* Decimal values are integers counted in a fixed unit:                    *)
(*   amounts (balances, profit/loss)  in 10^-AmountDigits,                 *)
(*   exchange rates                   in 10^-RateDigits.                   *)
(* Within the bounds below every product has far fewer than the 28         *)
(* significant digits of the default decimal context, so Decimal           *)
(* multiplication is exact and only round(..., 2) rounds.                  *)
(***************************************************************************)
EXTENDS Integers, Sequences, FiniteSets, TLC

VARIABLES
    exchange_rates,   \* BocHkExchangeRateService._exchange_rates
    ret,              \* the last call on the exchange-rate service and what it returned or raised
    file_data,        \* what parse_yaml_file yields for the repository's file
    report,           \* outcome of AssetManagementService.analyze_profit_loss
    heap,             \* the Asset objects that exist, by object identity
    result_ref,       \* last prepare_for_next_month call: the receiver and the object returned
    next_month_file,  \* content of the repository's next-month file
    run,              \* the last execute() of a use case: its inputs and the dict it returned
    call              \* the last call on a domain model: operation, arguments, outcome

vars == <<exchange_rates, ret, file_data, report, heap, result_ref,
          next_month_file, run, call>>

----------------------------------------------------------------------------
(* Bounds *)

AmountDigits == 3
RateDigits == 1
MaxRates == 2
MaxObjects == 3
MaxAssets == 2

----------------------------------------------------------------------------
(* Decimal arithmetic *)

RECURSIVE Pow10(_)
Pow10(n) == IF n = 0 THEN 1 ELSE 10 * Pow10(n - 1)

\* the decimal n * 10^-d as an amount / as a rate
Amt(n, d) == n * Pow10(AmountDigits - d)
Rate(n, d) == n * Pow10(RateDigits - d)

Abs(x) == IF x < 0 THEN -x ELSE x

\* Decimal.quantize with ROUND_HALF_UP: p counted in quanta of size q, ties away from zero
QuantizeHalfUp(p, q) ==
    LET a == Abs(p)
        d == a \div q
        r == a % q
        m == IF 2 * r >= q THEN d + 1 ELSE d
    IN  IF p < 0 THEN -m ELSE m

\* Decimal.quantize with ROUND_HALF_EVEN, which is what Decimal.__round__(n) applies
QuantizeHalfEven(p, q) ==
    LET a == Abs(p)
        d == a \div q
        r == a % q
        m == IF 2 * r > q \/ (2 * r = q /\ d % 2 = 1) THEN d + 1 ELSE d
    IN  IF p < 0 THEN -m ELSE m

\* round(amount * exchange_rate, ndigits): product is counted in
\* 10^-(AmountDigits+RateDigits), the result is an amount again
round(product, ndigits) ==
    QuantizeHalfEven(product, Pow10(AmountDigits + RateDigits - ndigits))
        * Pow10(AmountDigits - ndigits)

----------------------------------------------------------------------------
(* Enumerations *)

USD == "USD"
HKD == "HKD"
CNY == "CNY"
MoneyCode == {USD, HKD, CNY}

STOCK == "stock"
FUND == "fund"
CONSERVATIVE_WEALTH_MANAGEMENT == "conservative_wealth_management"
BANK_DEPOSIT == "bank_deposit"
CASH_EQUIVALENT == "cash_equivalent"
PENSION_FUND == "pension_fund"
CREDIT_CARD == "credit_card"
AssetType == {STOCK, FUND, CONSERVATIVE_WEALTH_MANAGEMENT, BANK_DEPOSIT,
              CASH_EQUIVALENT, PENSION_FUND, CREDIT_CARD}

----------------------------------------------------------------------------
(* Results of calls: a returned value or a raised exception *)

Ok(v) == [kind |-> "ok", value |-> v, error |-> "", message |-> ""]
Raise(e, m) == [kind |-> "raise", value |-> 0, error |-> e, message |-> m]

\* what parse_yaml_file returns: None, or the mapping as the sequence of its items()
None == [kind |-> "None", items |-> <<>>]
Dict(items) == [kind |-> "dict", items |-> items]

\* no call has been made yet
NotRun == [kind |-> "none", value |-> 0, error |-> "", message |-> ""]

\* the next-month file does not exist
NoFile == [kind |-> "absent", items |-> <<>>]

\* no use case has been executed, no domain model has been called
NoExecution == [use_case |-> "none"]
NoModelCall == [op |-> "none"]

ExchangeRateError(m) == Raise("ExchangeRateError", m)

----------------------------------------------------------------------------
(* BocHkExchangeRateService *)

make_rate_key_reversed(from_currency, to_currency) == <<to_currency, from_currency>>

\* the key "FROM->TO" of the rate dictionary, as the ordered pair it encodes
make_rate_key(from_currency, to_currency) == <<from_currency, to_currency>>

is_supported_currency_pair(rates, from_currency, to_currency) ==
    IF from_currency = to_currency
    THEN TRUE
    ELSE make_rate_key(from_currency, to_currency) \in DOMAIN rates

get_exchange_rate_lt(rates, from_currency, to_currency) ==
    IF from_currency = to_currency
    THEN Ok(Rate(1, 0))
    ELSE LET rate_key == make_rate_key(from_currency, to_currency)
         IN  IF rate_key \notin DOMAIN rates
             THEN ExchangeRateError("Exchange rate not found")
             ELSE IF rates[rate_key] < 0
                  THEN ExchangeRateError("Invalid exchange rate")
                  ELSE Ok(rates[rate_key])

get_exchange_rate(rates, from_currency, to_currency) ==
    IF from_currency = to_currency
    THEN Ok(Rate(1, 0))
    ELSE LET rate_key == make_rate_key(from_currency, to_currency)
         IN  IF rate_key \notin DOMAIN rates
             THEN ExchangeRateError("Exchange rate not found")
             ELSE IF rates[rate_key] <= 0
                  THEN ExchangeRateError("Invalid exchange rate")
                  ELSE Ok(rates[rate_key])

convert_half_up(rates, from_currency, to_currency, amount) ==
    IF from_currency = to_currency
    THEN Ok(amount)
    ELSE IF ~is_supported_currency_pair(rates, from_currency, to_currency)
         THEN ExchangeRateError("Unsupported currency pair")
         ELSE LET exchange_rate == get_exchange_rate(rates, from_currency, to_currency)
              IN  IF exchange_rate.kind = "raise"
                  THEN exchange_rate
                  ELSE Ok(QuantizeHalfUp(amount * exchange_rate.value,
                                         Pow10(AmountDigits + RateDigits - 2))
                            * Pow10(AmountDigits - 2))

convert_always_rounds(rates, from_currency, to_currency, amount) ==
    IF ~is_supported_currency_pair(rates, from_currency, to_currency)
    THEN ExchangeRateError("Unsupported currency pair")
    ELSE LET exchange_rate == get_exchange_rate(rates, from_currency, to_currency)
         IN  IF exchange_rate.kind = "raise"
             THEN exchange_rate
             ELSE Ok(round(amount * exchange_rate.value, 2))

convert(rates, from_currency, to_currency, amount) ==
    IF from_currency = to_currency
    THEN Ok(amount)
    ELSE IF ~is_supported_currency_pair(rates, from_currency, to_currency)
         THEN ExchangeRateError("Unsupported currency pair")
         ELSE LET exchange_rate == get_exchange_rate(rates, from_currency, to_currency)
              IN  IF exchange_rate.kind = "raise"
                  THEN exchange_rate
                  ELSE Ok(round(amount * exchange_rate.value, 2))

----------------------------------------------------------------------------
(* The exchange-rate service as an object: one table, calls in any order *)

NoCurrency == "-"

\* what a call was and how it ended
Called(op, from_currency, to_currency, amount, result) ==
    [op |-> op, from_currency |-> from_currency, to_currency |-> to_currency,
     amount |-> amount, result |-> result]

NoCall == Called("none", NoCurrency, NoCurrency, 0, Ok(0))

\* the ordered pairs of distinct currencies
CurrencyPairs == {p \in MoneyCode \X MoneyCode : p[1] # p[2]}

\* rates a provider may hand over: Decimal(text scraped from the site), any sign
StoredRates == {Rate(-1, 0), 0, Rate(5, 1), Rate(71, 1)}

\* tables BocHkExchangeRateProvider.fetch_all_rates may return (partial tables included)
ProviderTables ==
    UNION {[keys -> StoredRates] :
             keys \in {k \in SUBSET CurrencyPairs : Cardinality(k) <= MaxRates}}

\* amounts handed to convert
CallAmounts == {0, Amt(100, 0), Amt(1, 2), Amt(3, 2), Amt(-1, 2), Amt(-3, 2), Amt(5, 3)}

\* state left by BocHkExchangeRateService.__init__: one successful provider fetch
InitRates ==
    /\ exchange_rates \in ProviderTables
    /\ ret = NoCall
    /\ file_data = None
    /\ report = NotRun
    /\ next_month_file = NoFile
    /\ run = NoExecution
    /\ call = NoModelCall
    /\ heap = <<>>
    /\ result_ref = [self |-> 0, out |-> 0, raised |-> FALSE]

Convert(from_currency, to_currency, amount) ==
    /\ ret' = Called("convert", from_currency, to_currency, amount,
                     convert(exchange_rates, from_currency, to_currency, amount))
    /\ UNCHANGED <<exchange_rates, file_data, report, heap, result_ref, next_month_file, run, call>>

GetExchangeRate(from_currency, to_currency) ==
    /\ ret' = Called("get_exchange_rate", from_currency, to_currency, 0,
                     get_exchange_rate(exchange_rates, from_currency, to_currency))
    /\ UNCHANGED <<exchange_rates, file_data, report, heap, result_ref, next_month_file, run, call>>

IsSupportedCurrencyPair(from_currency, to_currency) ==
    /\ ret' = Called("is_supported_currency_pair", from_currency, to_currency, 0,
                     Ok(is_supported_currency_pair(exchange_rates, from_currency, to_currency)))
    /\ UNCHANGED <<exchange_rates, file_data, report, heap, result_ref, next_month_file, run, call>>

load_exchange_rates_clearing(rates, fetched) ==
    IF fetched.kind = "raise"
    THEN [rates |-> <<>>, result |-> ExchangeRateError("Failed to load exchange rates")]
    ELSE [rates |-> fetched.value, result |-> Ok(0)]

\* _load_exchange_rates: the table is assigned only when fetch_all_rates returned
load_exchange_rates(rates, fetched) ==
    IF fetched.kind = "raise"
    THEN [rates |-> rates, result |-> ExchangeRateError("Failed to load exchange rates")]
    ELSE [rates |-> fetched.value, result |-> Ok(0)]

\* tables the provider serves while a service is refreshed
RefreshTables == {t \in ProviderTables : DOMAIN t \subseteq {<<USD, CNY>>, <<CNY, USD>>}}

\* refresh_rates; the provider either returns some table or raises
RefreshRates ==
    \E fetched \in {Ok(t) : t \in RefreshTables} \cup {Raise("Exception", "fetch failed")} :
        LET loaded == load_exchange_rates(exchange_rates, fetched)
        IN  /\ exchange_rates' = loaded.rates
            /\ ret' = Called("refresh_rates", NoCurrency, NoCurrency, 0, loaded.result)
            /\ UNCHANGED <<file_data, report, heap, result_ref, next_month_file, run, call>>

NextRates ==
    \/ \E f \in MoneyCode, t \in MoneyCode, a \in CallAmounts : Convert(f, t, a)
    \/ \E f \in MoneyCode, t \in MoneyCode : GetExchangeRate(f, t)
    \/ \E f \in MoneyCode, t \in MoneyCode : IsSupportedCurrencyPair(f, t)

\* a service whose table stays the one loaded at construction
SpecRates == InitRates /\ [][NextRates]_vars

InitRefresh ==
    /\ exchange_rates \in RefreshTables
    /\ ret = NoCall
    /\ file_data = None
    /\ report = NotRun
    /\ next_month_file = NoFile
    /\ run = NoExecution
    /\ call = NoModelCall
    /\ heap = <<>>
    /\ result_ref = [self |-> 0, out |-> 0, raised |-> FALSE]

NextRefresh ==
    \/ NextRates
    \/ RefreshRates

\* a service that is refreshed between calls
SpecRefresh == InitRefresh /\ [][NextRefresh]_vars

----------------------------------------------------------------------------
(* Properties of the exchange-rate service *)

CallIsStored == <<ret.from_currency, ret.to_currency>> \in DOMAIN exchange_rates
CallRate == exchange_rates[<<ret.from_currency, ret.to_currency>>]
CrossCurrencyCall == ret.op # "none" /\ ret.op # "refresh_rates" /\ ret.from_currency # ret.to_currency
SameCurrencyCall == ret.op # "none" /\ ret.op # "refresh_rates" /\ ret.from_currency = ret.to_currency

RaisedUnsupportedPair(result) ==
    /\ result.kind = "raise"
    /\ result.error = "ExchangeRateError"
    /\ result.message \in {"Unsupported currency pair", "Exchange rate not found"}

RaisedInvalidRate(result) ==
    /\ result.kind = "raise"
    /\ result.error = "ExchangeRateError"
    /\ result.message = "Invalid exchange rate"

\* the size of 0.01 counted in product units and in amount units
ProductCent == Pow10(AmountDigits + RateDigits - 2)
AmountCent == Pow10(AmountDigits - 2)

C6_AsStated ==
    CrossCurrencyCall =>
        /\ ret.op = "is_supported_currency_pair" => (ret.result.value <=> CallIsStored)
        /\ (ret.op = "get_exchange_rate" /\ CallIsStored) => ret.result = Ok(CallRate)
        /\ (ret.op \in {"convert", "get_exchange_rate"} /\ ~CallIsStored) =>
               RaisedUnsupportedPair(ret.result)

\* C6 (amended): rate pairs are directed; for distinct currencies,
\* is_supported_currency_pair is true exactly when the ordered pair is stored,
\* get_exchange_rate returns the stored rate when that rate is positive, and
\* both convert and get_exchange_rate raise the unsupported-pair error when
\* the ordered pair is not stored, even if the reverse pair is.
C6_DirectedPairs ==
    CrossCurrencyCall =>
        /\ ret.op = "is_supported_currency_pair" => (ret.result.value <=> CallIsStored)
        /\ (ret.op = "get_exchange_rate" /\ CallIsStored /\ CallRate > 0) =>
               ret.result = Ok(CallRate)
        /\ (ret.op \in {"convert", "get_exchange_rate"} /\ ~CallIsStored) =>
               RaisedUnsupportedPair(ret.result)

\* convert was asked for a pair that is stored only in the reverse direction
C6_Witness ==
    /\ ret.op = "convert"
    /\ CrossCurrencyCall
    /\ ~CallIsStored
    /\ <<ret.to_currency, ret.from_currency>> \in DOMAIN exchange_rates
    /\ RaisedUnsupportedPair(ret.result)

\* C7: for identical currencies convert returns the amount unchanged and
\* get_exchange_rate returns 1, whatever the table holds.
C7_SameCurrencyIdentity ==
    SameCurrencyCall =>
        /\ ret.op = "convert" => ret.result = Ok(ret.amount)
        /\ ret.op = "get_exchange_rate" => ret.result = Ok(Rate(1, 0))

\* an amount with three decimals went through convert(c, c, .) on an empty table
C7_Witness ==
    /\ ret.op = "convert"
    /\ SameCurrencyCall
    /\ ret.amount % AmountCent # 0
    /\ DOMAIN exchange_rates = {}
    /\ ret.result.kind = "ok"

\* C8: for distinct currencies whose stored rate is zero or negative, convert
\* and get_exchange_rate raise the invalid-rate error and return no amount,
\* and neither call changes the rate table.
C8_InvalidRateRaises ==
    /\ []((/\ ret.op \in {"convert", "get_exchange_rate"}
           /\ CrossCurrencyCall
           /\ CallIsStored
           /\ CallRate <= 0) => RaisedInvalidRate(ret.result))
    /\ [][(ret' # ret /\ ret'.op \in {"convert", "get_exchange_rate"})
             => exchange_rates' = exchange_rates]_vars

\* convert was called on a pair whose stored rate is zero
C8_Witness ==
    /\ ret.op = "convert"
    /\ CrossCurrencyCall
    /\ CallIsStored
    /\ CallRate = 0
    /\ RaisedInvalidRate(ret.result)

----------------------------------------------------------------------------
(* Asset *)

\* str.strip() on the names of the model: a name of blanks strips to the empty string
strip(name) == IF name \in {"", " "} THEN "" ELSE name

ValueError(m) == Raise("ValueError", m)

Asset_previous_unchecked(name, asset_type, currency, current_balance, previous_balance) ==
    IF name = "" \/ strip(name) = ""
    THEN ValueError("Asset name cannot be empty")
    ELSE IF current_balance < 0
         THEN ValueError("Current balance cannot be negative")
         ELSE Ok([name |-> name, asset_type |-> asset_type, currency |-> currency,
                  current_balance |-> current_balance,
                  previous_balance |-> previous_balance])

\* Asset(...) with the checks of __post_init__
Asset(name, asset_type, currency, current_balance, previous_balance) ==
    IF name = "" \/ strip(name) = ""
    THEN ValueError("Asset name cannot be empty")
    ELSE IF current_balance < 0
         THEN ValueError("Current balance cannot be negative")
         ELSE IF previous_balance < 0
              THEN ValueError("Previous balance cannot be negative")
              ELSE Ok([name |-> name, asset_type |-> asset_type, currency |-> currency,
                       current_balance |-> current_balance,
                       previous_balance |-> previous_balance])

calculate_profit_loss(asset) == asset.current_balance - asset.previous_balance

is_credit_card(asset) == asset.asset_type = CREDIT_CARD

prepare_for_next_month_always_resets(asset) ==
    Asset(asset.name, asset.asset_type, asset.currency, Amt(0, 2), asset.current_balance)

prepare_for_next_month(asset) ==
    IF is_credit_card(asset)
    THEN Asset(asset.name, asset.asset_type, asset.currency,
               asset.current_balance, asset.previous_balance)
    ELSE Asset(asset.name, asset.asset_type, asset.currency,
               Amt(0, 2), asset.current_balance)

----------------------------------------------------------------------------
(* Asset objects: heap[i] is the value of the object with identity i *)

AssetNames == {"X", "Y"}
AssetBalances == {0, Amt(1, 2), Amt(500, 0)}

\* the Asset values that construction lets exist
ConstructedAssets ==
    {r.value : r \in {x \in {Asset(n, ty, c, cur, prev) :
                               n \in AssetNames, ty \in AssetType, c \in MoneyCode,
                               cur \in AssetBalances, prev \in AssetBalances} :
                        x.kind = "ok"}}

NoRollForward == [self |-> 0, out |-> 0, raised |-> FALSE]

InitAsset ==
    /\ heap \in {<<a>> : a \in ConstructedAssets}
    /\ result_ref = NoRollForward
    /\ exchange_rates = <<>>
    /\ ret = NoCall
    /\ file_data = None
    /\ report = NotRun
    /\ next_month_file = NoFile
    /\ run = NoExecution
    /\ call = NoModelCall

\* asset.prepare_for_next_month() on the object self: the returned Asset is a new object
PrepareForNextMonth(self) ==
    /\ Len(heap) < MaxObjects
    /\ LET result == prepare_for_next_month(heap[self])
       IN  IF result.kind = "raise"
           THEN /\ heap' = heap
                /\ result_ref' = [self |-> self, out |-> 0, raised |-> TRUE]
           ELSE /\ heap' = Append(heap, result.value)
                /\ result_ref' = [self |-> self, out |-> Len(heap) + 1, raised |-> FALSE]
    /\ UNCHANGED <<exchange_rates, ret, file_data, report, next_month_file, run, call>>

NextAsset == \E self \in 1..Len(heap) : PrepareForNextMonth(self)

SpecAsset == InitAsset /\ [][NextAsset]_vars

\* C10: prepare_for_next_month on a credit_card asset returns a distinct
\* Asset equal to the original in every field; on any other asset it returns
\* a distinct Asset with the same name, type and currency, previous_balance
\* equal to the old current_balance and current_balance equal to 0.
C10_RollForwardOfOneAsset ==
    result_ref.self # 0 =>
        /\ ~result_ref.raised
        /\ result_ref.out # result_ref.self
        /\ LET old == heap[result_ref.self]
               new == heap[result_ref.out]
           IN  IF old.asset_type = CREDIT_CARD
               THEN new = old
               ELSE /\ new.name = old.name
                    /\ new.asset_type = old.asset_type
                    /\ new.currency = old.currency
                    /\ new.previous_balance = old.current_balance
                    /\ new.current_balance = 0

\* a credit card with different, non-zero balances has been rolled forward
C10_Witness ==
    /\ result_ref.self # 0
    /\ result_ref.out # 0
    /\ heap[result_ref.self].asset_type = CREDIT_CARD
    /\ heap[result_ref.self].current_balance > 0
    /\ heap[result_ref.self].current_balance # heap[result_ref.self].previous_balance

----------------------------------------------------------------------------
(* Enum lookups from the codes found in a file *)

convert_from_en_str_defaulting(asset_en_str) ==
    IF asset_en_str \in AssetType
    THEN Ok(asset_en_str)
    ELSE Ok(STOCK)

\* AssetType.convert_from_en_str: the member whose en_name is the code
convert_from_en_str(asset_en_str) ==
    IF asset_en_str \in AssetType
    THEN Ok(asset_en_str)
    ELSE ValueError("Invalid AssetType")

\* MoneyCode.convert_from_str
convert_from_str(money_code_str) ==
    IF money_code_str \in MoneyCode
    THEN Ok(money_code_str)
    ELSE ValueError("Invalid MoneyCode")

----------------------------------------------------------------------------
(* Portfolio *)

Names(assets) == {assets[i].name : i \in 1..Len(assets)}

Portfolio_unvalidated(assets) == Ok(assets)

\* Portfolio(assets) with _validate_assets; a portfolio is its list of assets
Portfolio(assets) ==
    IF Len(assets) = 0
    THEN Ok(assets)
    ELSE IF Len(assets) # Cardinality(Names(assets))
         THEN ValueError("Portfolio contains duplicate asset names")
         ELSE Ok(assets)

size(portfolio) == Len(portfolio)

\* the groups of a dict whose keys were inserted in the order seen
RECURSIVE AddToGroup(_, _)
AddToGroup(grouped, asset) ==
    IF grouped = <<>>
    THEN <<[asset_type |-> asset.asset_type, assets |-> <<asset>>]>>
    ELSE IF Head(grouped).asset_type = asset.asset_type
         THEN <<[Head(grouped) EXCEPT !.assets = Append(@, asset)]>> \o Tail(grouped)
         ELSE <<Head(grouped)>> \o AddToGroup(Tail(grouped), asset)

RECURSIVE GroupLoop(_, _)
GroupLoop(grouped, assets) ==
    IF assets = <<>>
    THEN grouped
    ELSE GroupLoop(AddToGroup(grouped, Head(assets)), Tail(assets))

group_by_asset_type_of_first(portfolio) ==
    GroupLoop(<<>>, SelectSeq(portfolio, LAMBDA asset : asset.asset_type = portfolio[1].asset_type))

\* Portfolio.group_by_asset_type: the dict as the sequence of its items()
group_by_asset_type(portfolio) == GroupLoop(<<>>, portfolio)

----------------------------------------------------------------------------
(* YamlAssetRepository: loading *)

RepositoryError(m) == Raise("RepositoryError", m)

required_fields == {"name", "money_code", "current_account_balance",
                    "last_month_account_balance"}

\* Decimal(str(x)) of a YAML number, which the model names by the decimal
\* that str(x) prints
DecimalOfStr(x) == x

_create_asset_from_data_swapped(asset_type, asset_data) ==
    IF ~(required_fields \subseteq DOMAIN asset_data)
    THEN ValueError("Missing required field")
    ELSE LET money_code == convert_from_str(asset_data.money_code)
         IN  IF money_code.kind = "raise"
             THEN ValueError("Invalid money code")
             ELSE Asset(asset_data.name, asset_type, money_code.value,
                        DecimalOfStr(asset_data.last_month_account_balance),
                        DecimalOfStr(asset_data.current_account_balance))

_create_asset_from_data(asset_type, asset_data) ==
    IF ~(required_fields \subseteq DOMAIN asset_data)
    THEN ValueError("Missing required field")
    ELSE LET money_code == convert_from_str(asset_data.money_code)
         IN  IF money_code.kind = "raise"
             THEN ValueError("Invalid money code")
             ELSE Asset(asset_data.name, asset_type, money_code.value,
                        DecimalOfStr(asset_data.current_account_balance),
                        DecimalOfStr(asset_data.last_month_account_balance))

\* the inner loop of _convert_data_to_assets: a record that fails is skipped
RECURSIVE CreateAssets(_, _, _)
CreateAssets(assets, asset_type, asset_list) ==
    IF asset_list = <<>>
    THEN assets
    ELSE LET asset == _create_asset_from_data(asset_type, Head(asset_list))
         IN  CreateAssets(IF asset.kind = "raise" THEN assets ELSE Append(assets, asset.value),
                          asset_type, Tail(asset_list))

\* the outer loop of _convert_data_to_assets: a group with an unknown code is skipped
RECURSIVE ConvertGroups(_, _)
ConvertGroups(assets, data) ==
    IF data = <<>>
    THEN assets
    ELSE LET asset_type == convert_from_en_str(Head(data).asset_type_str)
         IN  ConvertGroups(IF asset_type.kind = "raise"
                           THEN assets
                           ELSE CreateAssets(assets, asset_type.value, Head(data).asset_list),
                           Tail(data))

_convert_data_to_assets(data) == ConvertGroups(<<>>, data)

load_portfolio(data) ==
    IF data = None
    THEN RepositoryError("Failed to parse YAML file")
    ELSE LET portfolio == Portfolio(_convert_data_to_assets(data.items))
         IN  IF portfolio.kind = "raise"
             THEN RepositoryError("Failed to load portfolio")
             ELSE portfolio

----------------------------------------------------------------------------
(* AssetManagementService: profit/loss analysis *)

TypeError(m) == Raise("TypeError", m)

\* the fields of the ProfitLossInfo dataclass, none of which has a default
ProfitLossInfoFields == {"name", "money_code", "last_month_balance",
                         "current_month_balance", "profit_loss_amount_rmb"}

\* ProfitLossInfo(**kwargs): the generated __init__ requires every field
ProfitLossInfo(kwargs) ==
    IF DOMAIN kwargs = ProfitLossInfoFields
    THEN Ok(kwargs)
    ELSE TypeError("ProfitLossInfo.__init__() missing required argument")

AssetTypeSummary(asset_type, total_profit_loss_rmb, profit_loss_details) ==
    [asset_type |-> asset_type,
     total_profit_loss_rmb |-> total_profit_loss_rmb,
     profit_loss_details |-> profit_loss_details]

ProfitLossReport(asset_type_summaries, total_profit_loss_rmb) ==
    [asset_type_summaries |-> asset_type_summaries,
     total_profit_loss_rmb |-> total_profit_loss_rmb]

has_profit_or_even(r) == r.total_profit_loss_rmb >= 0

\* ProfitLossReport.has_profit, ProfitLossReport.has_loss
has_profit(r) == r.total_profit_loss_rmb > 0
has_loss(r) == r.total_profit_loss_rmb < 0

\* _convert_to_rmb_if_needed: any exception of convert is swallowed
_convert_to_rmb_if_needed(rates, amount, currency) ==
    IF currency = CNY
    THEN amount
    ELSE LET converted == convert(rates, currency, CNY, amount)
         IN  IF converted.kind = "raise" THEN amount ELSE converted.value

\* the loop of _analyze_asset_type_profit_loss over the assets left
RECURSIVE AnalyzeAssets(_, _, _, _)
AnalyzeAssets(rates, profit_loss_details, total_profit_loss_rmb, assets) ==
    IF assets = <<>>
    THEN Ok([profit_loss_details |-> profit_loss_details,
             total_profit_loss_rmb |-> total_profit_loss_rmb])
    ELSE LET asset == Head(assets)
             profit_loss_amount == calculate_profit_loss(asset)
             profit_loss_rmb == _convert_to_rmb_if_needed(rates, profit_loss_amount,
                                                          asset.currency)
             detail == ProfitLossInfo([name |-> asset.name,
                                       money_code |-> asset.currency,
                                       last_month_balance |-> asset.previous_balance,
                                       profit_loss_amount_rmb |-> profit_loss_rmb])
         IN  IF detail.kind = "raise"
             THEN detail
             ELSE AnalyzeAssets(rates, Append(profit_loss_details, detail.value),
                                total_profit_loss_rmb + profit_loss_rmb, Tail(assets))

_analyze_asset_type_profit_loss(rates, asset_type, assets) ==
    IF assets = <<>>
    THEN Ok(AssetTypeSummary(asset_type, Amt(0, 2), <<>>))
    ELSE LET looped == AnalyzeAssets(rates, <<>>, Amt(0, 2), assets)
         IN  IF looped.kind = "raise"
             THEN looped
             ELSE Ok(AssetTypeSummary(asset_type, looped.value.total_profit_loss_rmb,
                                      looped.value.profit_loss_details))

\* the loop of analyze_profit_loss over the groups left
RECURSIVE AnalyzeGroups(_, _, _, _)
AnalyzeGroups(rates, asset_type_summaries, total_profit_loss_rmb, grouped_assets) ==
    IF grouped_assets = <<>>
    THEN Ok(ProfitLossReport(asset_type_summaries, total_profit_loss_rmb))
    ELSE LET summary == _analyze_asset_type_profit_loss(rates, Head(grouped_assets).asset_type,
                                                        Head(grouped_assets).assets)
         IN  IF summary.kind = "raise"
             THEN summary
             ELSE AnalyzeGroups(rates, Append(asset_type_summaries, summary.value),
                                total_profit_loss_rmb + summary.value.total_profit_loss_rmb,
                                Tail(grouped_assets))

analyze_profit_loss(rates, data) ==
    LET portfolio == load_portfolio(data)
    IN  IF portfolio.kind = "raise"
        THEN portfolio
        ELSE AnalyzeGroups(rates, <<>>, Amt(0, 2), group_by_asset_type(portfolio.value))

----------------------------------------------------------------------------
(* One run of the analysis over a file and a rate table *)

FileNames == {"X", "Y"}
FileTypes == {STOCK, BANK_DEPOSIT, CREDIT_CARD}

\* <<current_account_balance, last_month_account_balance>> of the records of a file
FileBalances == {<<Amt(1000, 0), Amt(900, 0)>>, <<Amt(1, 2), Amt(0, 2)>>,
                 <<Amt(0, 2), Amt(200, 0)>>}

FileRecords ==
    {[name |-> n, money_code |-> c, current_account_balance |-> b[1],
      last_month_account_balance |-> b[2]] :
        n \in FileNames, c \in MoneyCode, b \in FileBalances}

\* the file as a mapping: a record goes to the list under its type code
RECURSIVE AddRecord(_, _)
AddRecord(items, row) ==
    IF items = <<>>
    THEN <<[asset_type_str |-> row[1], asset_list |-> <<row[2]>>]>>
    ELSE IF Head(items).asset_type_str = row[1]
         THEN <<[Head(items) EXCEPT !.asset_list = Append(@, row[2])]>> \o Tail(items)
         ELSE <<Head(items)>> \o AddRecord(Tail(items), row)

RECURSIVE FileOf(_, _)
FileOf(items, rows) ==
    IF rows = <<>> THEN items ELSE FileOf(AddRecord(items, Head(rows)), Tail(rows))

FileRows == UNION {[1..n -> FileTypes \X FileRecords] : n \in 0..MaxAssets}

\* the files of the model: at most MaxAssets records under the type codes, or no file
AssetFiles == {None} \cup {Dict(FileOf(<<>>, rows)) : rows \in FileRows}

\* rate tables of a run: the rates to the reporting currency, some missing, some invalid
AnalysisRates == {0, Rate(5, 1), Rate(70, 1)}
AnalysisTables ==
    UNION {[keys -> AnalysisRates] : keys \in SUBSET {<<USD, CNY>>, <<HKD, CNY>>}}

Init ==
    /\ exchange_rates \in AnalysisTables
    /\ file_data \in AssetFiles
    /\ report = NotRun
    /\ next_month_file = NoFile
    /\ run = NoExecution
    /\ call = NoModelCall
    /\ ret = NoCall
    /\ heap = <<>>
    /\ result_ref = NoRollForward

AnalyzeProfitLoss ==
    /\ report' = analyze_profit_loss(exchange_rates, file_data)
    /\ UNCHANGED <<exchange_rates, ret, file_data, heap, result_ref, next_month_file, run, call>>

Next == AnalyzeProfitLoss

Spec == Init /\ [][Next]_vars

----------------------------------------------------------------------------
(* Properties of the analysis *)

Analyzed == report # NotRun
Loaded == load_portfolio(file_data)
Summaries == report.value.asset_type_summaries

RECURSIVE SumOfDetails(_)
SumOfDetails(details) ==
    IF details = <<>>
    THEN 0
    ELSE Head(details).profit_loss_amount_rmb + SumOfDetails(Tail(details))

RECURSIVE SumOfSummaries(_)
SumOfSummaries(summaries) ==
    IF summaries = <<>>
    THEN 0
    ELSE Head(summaries).total_profit_loss_rmb + SumOfSummaries(Tail(summaries))

\* the places <<summary, detail>> of the report that carry the given name
DetailsNamed(name) ==
    {pos \in {<<i, j>> : i \in 1..Len(Summaries), j \in 1..MaxAssets + 1} :
        /\ pos[2] <= Len(Summaries[pos[1]].profit_loss_details)
        /\ Summaries[pos[1]].profit_loss_details[pos[2]].name = name}

DetailAt(pos) == Summaries[pos[1]].profit_loss_details[pos[2]]

StoredToCny(currency) == <<currency, CNY>> \in DOMAIN exchange_rates

\* the one-stock file of the end-to-end scenario
OneStockFile ==
    Dict(<<[asset_type_str |-> STOCK,
            asset_list |-> <<[name |-> "X", money_code |-> USD,
                              current_account_balance |-> Amt(1000, 0),
                              last_month_account_balance |-> Amt(900, 0)]>>]>>)

\* C1: for the portfolio of one stock asset X in USD with balances 1000 and
\* 900 and a stored USD->CNY rate of 7.0, analyze_profit_loss returns a report
\* whose stock summary total is 700.00, whose total is 700.00 and for which
\* has_profit() is true.
C1_EndToEndOneStock ==
    (/\ Analyzed
     /\ file_data = OneStockFile
     /\ StoredToCny(USD)
     /\ exchange_rates[<<USD, CNY>>] = Rate(70, 1)) =>
        /\ report.kind = "ok"
        /\ Len(Summaries) = 1
        /\ Summaries[1].asset_type = STOCK
        /\ Summaries[1].total_profit_loss_rmb = Amt(70000, 2)
        /\ report.value.total_profit_loss_rmb = Amt(70000, 2)
        /\ has_profit(report.value)

C3_OneDetailPerAsset ==
    (Analyzed /\ Loaded.kind = "ok") =>
        /\ report.kind = "ok"
        /\ \A k \in 1..Len(Loaded.value) :
               LET asset == Loaded.value[k]
               IN  /\ Cardinality(DetailsNamed(asset.name)) = 1
                   /\ \A pos \in DetailsNamed(asset.name) :
                          /\ Summaries[pos[1]].asset_type = asset.asset_type
                          /\ DetailAt(pos).money_code = asset.currency
                          /\ DetailAt(pos).last_month_balance = asset.previous_balance
                          /\ DetailAt(pos).current_month_balance = asset.current_balance
                          /\ DetailAt(pos).profit_loss_amount_rmb
                                 = _convert_to_rmb_if_needed(exchange_rates,
                                       calculate_profit_loss(asset), asset.currency)

\* two USD assets of one type, each gaining 0.01, which at rate 0.5 is 0.005 in CNY
TwoHalfCentAssets ==
    /\ file_data.kind = "dict"
    /\ Len(file_data.items) = 1
    /\ Len(file_data.items[1].asset_list) = 2
    /\ \A j \in 1..2 :
           /\ file_data.items[1].asset_list[j].money_code = USD
           /\ file_data.items[1].asset_list[j].current_account_balance = Amt(1, 2)
           /\ file_data.items[1].asset_list[j].last_month_account_balance = Amt(0, 2)
    /\ file_data.items[1].asset_list[1].name # file_data.items[1].asset_list[2].name
    /\ StoredToCny(USD)
    /\ exchange_rates[<<USD, CNY>>] = Rate(5, 1)

\* C5: when two assets of one type each have an unrounded converted
\* profit/loss of exactly 0.005, each reported amount is 0.01 and the type
\* total is 0.02.
C5_HalfCentsSumToTwoCents ==
    (Analyzed /\ TwoHalfCentAssets) =>
        /\ report.kind = "ok"
        /\ Len(Summaries) = 1
        /\ \A j \in 1..2 :
               Summaries[1].profit_loss_details[j].profit_loss_amount_rmb = Amt(1, 2)
        /\ Summaries[1].total_profit_loss_rmb = Amt(2, 2)

\* the conversion of the asset's profit/loss to CNY raises
ConversionFails(asset) ==
    /\ asset.currency # CNY
    /\ convert(exchange_rates, asset.currency, CNY, calculate_profit_loss(asset)).kind = "raise"

\* C9: when the conversion of an asset's profit/loss fails, the analysis
\* still returns a complete report, in which that asset's amount is its
\* unconverted profit/loss and every asset of the portfolio has its detail.
C9_SoftFailConversion ==
    (/\ Analyzed
     /\ Loaded.kind = "ok"
     /\ \E k \in 1..Len(Loaded.value) : ConversionFails(Loaded.value[k])) =>
        /\ report.kind = "ok"
        /\ \A k \in 1..Len(Loaded.value) :
               /\ DetailsNamed(Loaded.value[k].name) # {}
               /\ ConversionFails(Loaded.value[k]) =>
                      \A pos \in DetailsNamed(Loaded.value[k].name) :
                          DetailAt(pos).profit_loss_amount_rmb
                              = calculate_profit_loss(Loaded.value[k])

----------------------------------------------------------------------------
(* Next-month template: Portfolio, the YAML writer, the repository, the service *)

\* The balances of sixteen digits: LongAmount + k stands for the balance
\* Decimal(2^53 + k), the first whole numbers that are not all doubles
LongAmount == Pow10(9)

\* float(d) of a Decimal: the double nearest to d, named by the decimal that
\* str() prints for it.  Below the sixteen digits that is d itself; from 2^53
\* on only the even whole numbers are doubles, and a tie goes to the double
\* with the even mantissa
float(d) ==
    IF d < LongAmount
    THEN d
    ELSE LET k == d - LongAmount
         IN  IF k % 2 = 0
             THEN d
             ELSE IF k % 4 = 1 THEN d - 1 ELSE d + 1

\* the list comprehension of prepare_next_month_portfolio
RECURSIVE NextMonthAssets(_)
NextMonthAssets(assets) ==
    IF assets = <<>>
    THEN Ok(<<>>)
    ELSE LET asset == prepare_for_next_month(Head(assets))
             rest == NextMonthAssets(Tail(assets))
         IN  IF asset.kind = "raise"
             THEN asset
             ELSE IF rest.kind = "raise"
                  THEN rest
                  ELSE Ok(<<asset.value>> \o rest.value)

prepare_next_month_portfolio_not_rolled(portfolio) ==
    LET next_month_assets == NextMonthAssets(portfolio)
    IN  IF next_month_assets.kind = "raise"
        THEN next_month_assets
        ELSE Portfolio(portfolio)

prepare_next_month_portfolio(portfolio) ==
    LET next_month_assets == NextMonthAssets(portfolio)
    IN  IF next_month_assets.kind = "raise"
        THEN next_month_assets
        ELSE Portfolio(next_month_assets.value)

\* write_yaml_file on a disk that is "ok", on which creating the directory
\* fails ("mkdir_fails") or on which opening the file fails ("open_fails"):
\* mkdir is outside the try, the exception of open is logged and dropped
write_yaml_file(disk, file, data) ==
    IF disk = "mkdir_fails"
    THEN [file |-> file, result |-> Raise("OSError", "cannot create directory")]
    ELSE IF disk = "open_fails"
         THEN [file |-> file, result |-> Ok(0)]
         ELSE [file |-> Dict(data), result |-> Ok(0)]

write_yaml_file_raises(disk, file, data) ==
    IF disk = "mkdir_fails"
    THEN [file |-> file, result |-> Raise("OSError", "cannot create directory")]
    ELSE IF disk = "open_fails"
         THEN [file |-> file, result |-> Raise("OSError", "cannot open file")]
         ELSE [file |-> Dict(data), result |-> Ok(0)]

\* YamlAssetRepository.save_next_month_portfolio
save_next_month_portfolio(disk, file, portfolio_data) ==
    LET written == write_yaml_file(disk, file, portfolio_data)
    IN  IF written.result.kind = "raise"
        THEN [file |-> written.file,
              result |-> RepositoryError("Failed to save next month portfolio data")]
        ELSE written

\* the inner loop of generate_next_month_template
RECURSIVE AssetDataList(_)
AssetDataList(assets) ==
    IF assets = <<>>
    THEN <<>>
    ELSE <<[name |-> Head(assets).name,
            money_code |-> Head(assets).currency,
            current_account_balance |-> float(Head(assets).current_balance),
            last_month_account_balance |-> float(Head(assets).previous_balance)]>>
         \o AssetDataList(Tail(assets))

\* the outer loop of generate_next_month_template: the key is asset_type.en_name
RECURSIVE NextMonthData(_)
NextMonthData(grouped_assets) ==
    IF grouped_assets = <<>>
    THEN <<>>
    ELSE <<[asset_type_str |-> Head(grouped_assets).asset_type,
            asset_list |-> AssetDataList(Head(grouped_assets).assets)]>>
         \o NextMonthData(Tail(grouped_assets))

generate_next_month_template_not_rolled(disk, data, file) ==
    LET saved == save_next_month_portfolio(disk, file, <<>>)
    IN  IF saved.result.kind = "raise"
        THEN [file |-> saved.file, saved |-> <<>>, result |-> saved.result]
        ELSE LET portfolio == load_portfolio(data)
             IN  IF portfolio.kind = "raise"
                 THEN [file |-> saved.file, saved |-> <<>>, result |-> portfolio]
                 ELSE [file |-> saved.file, saved |-> <<>>,
                       result |-> Ok(NextMonthData(group_by_asset_type(portfolio.value)))]

\* AssetManagementService.generate_next_month_template: file is the next-month
\* file after the call, saved the argument given to save_next_month_portfolio
generate_next_month_template(disk, data, file) ==
    LET saved == save_next_month_portfolio(disk, file, <<>>)
    IN  IF saved.result.kind = "raise"
        THEN [file |-> saved.file, saved |-> <<>>, result |-> saved.result]
        ELSE LET portfolio == load_portfolio(data)
             IN  IF portfolio.kind = "raise"
                 THEN [file |-> saved.file, saved |-> <<>>, result |-> portfolio]
                 ELSE LET next_month_portfolio == prepare_next_month_portfolio(portfolio.value)
                      IN  IF next_month_portfolio.kind = "raise"
                          THEN [file |-> saved.file, saved |-> <<>>,
                                result |-> next_month_portfolio]
                          ELSE [file |-> saved.file, saved |-> <<>>,
                                result |-> Ok(NextMonthData(
                                    group_by_asset_type(next_month_portfolio.value)))]

----------------------------------------------------------------------------
(* GenerateTemplateUseCase *)

\* the loop of _calculate_template_stats over the items left
RECURSIVE TemplateStats(_, _, _)
TemplateStats(total_assets, asset_type_breakdown, items) ==
    IF items = <<>>
    THEN [total_assets |-> total_assets, asset_type_breakdown |-> asset_type_breakdown]
    ELSE TemplateStats(total_assets + Len(Head(items).asset_list),
                       Append(asset_type_breakdown,
                              [asset_type |-> Head(items).asset_type_str,
                               asset_count |-> Len(Head(items).asset_list)]),
                       Tail(items))

_calculate_template_stats(template_data) ==
    LET looped == TemplateStats(0, <<>>, template_data)
    IN  [total_assets |-> looped.total_assets,
         asset_types_count |-> Len(template_data),
         asset_type_breakdown |-> looped.asset_type_breakdown]

\* str(e): RepositoryError defines __str__, the others give their message
str(e) ==
    IF e.error = "RepositoryError"
    THEN "RepositoryError: " \o e.message
    ELSE e.message

\* GenerateTemplateUseCase.execute: the dict it returns, with the next-month
\* file after the call and the argument the repository was given
GenerateTemplateUseCase_execute(disk, data, file) ==
    LET generated == generate_next_month_template(disk, data, file)
        next_month_data == generated.result
    IN  [file |-> generated.file,
         saved |-> generated.saved,
         result |-> IF next_month_data.kind = "raise"
                    THEN [success |-> FALSE,
                          error |-> str(next_month_data),
                          template_data |-> None,
                          statistics |-> None]
                    ELSE [success |-> TRUE,
                          template_data |-> next_month_data.value,
                          statistics |-> _calculate_template_stats(next_month_data.value)]]

----------------------------------------------------------------------------
(* ProfitLossReport: classification of the asset types *)

\* the list comprehension of get_profitable_asset_types over the summaries left
RECURSIVE get_profitable_asset_types(_)
get_profitable_asset_types(summaries) ==
    IF summaries = <<>>
    THEN <<>>
    ELSE (IF Head(summaries).total_profit_loss_rmb > 0
          THEN <<Head(summaries).asset_type>>
          ELSE <<>>)
         \o get_profitable_asset_types(Tail(summaries))

RECURSIVE get_loss_asset_types(_)
get_loss_asset_types(summaries) ==
    IF summaries = <<>>
    THEN <<>>
    ELSE (IF Head(summaries).total_profit_loss_rmb < 0
          THEN <<Head(summaries).asset_type>>
          ELSE <<>>)
         \o get_loss_asset_types(Tail(summaries))

----------------------------------------------------------------------------
(* AssetManagementService.get_portfolio_summary, ReportService *)

get_asset_types(portfolio) == {portfolio[i].asset_type : i \in 1..Len(portfolio)}

\* the loop of get_portfolio_summary: the count of each group under its type
Breakdown(grouped_assets) ==
    [i \in 1..Len(grouped_assets) |->
        [asset_type |-> grouped_assets[i].asset_type,
         asset_count |-> Len(grouped_assets[i].assets)]]

get_portfolio_summary_of_types(data) ==
    LET portfolio == load_portfolio(data)
    IN  IF portfolio.kind = "raise"
        THEN portfolio
        ELSE Ok([total_assets |-> Cardinality(get_asset_types(portfolio.value)),
                 asset_types |-> Cardinality(get_asset_types(portfolio.value)),
                 asset_type_breakdown |-> Breakdown(group_by_asset_type(portfolio.value))])

get_portfolio_summary(data) ==
    LET portfolio == load_portfolio(data)
    IN  IF portfolio.kind = "raise"
        THEN portfolio
        ELSE Ok([total_assets |-> size(portfolio.value),
                 asset_types |-> Cardinality(get_asset_types(portfolio.value)),
                 asset_type_breakdown |-> Breakdown(group_by_asset_type(portfolio.value))])

\* format_profit_loss_report: the text, as the figures it prints
format_profit_loss_report(r) ==
    [total_types |-> Len(r.asset_type_summaries),
     profit_count |-> Len(get_profitable_asset_types(r.asset_type_summaries)),
     loss_count |-> Len(get_loss_asset_types(r.asset_type_summaries)),
     subtotals |-> [i \in 1..Len(r.asset_type_summaries) |->
                        r.asset_type_summaries[i].total_profit_loss_rmb],
     total_amount |-> r.total_profit_loss_rmb]

\* the detail_data of export_report_to_dict
DetailData(details) ==
    [j \in 1..Len(details) |->
        [name |-> details[j].name,
         currency |-> details[j].money_code,
         last_month_balance |-> float(details[j].last_month_balance),
         current_month_balance |-> float(details[j].current_month_balance),
         profit_loss_rmb |-> float(details[j].profit_loss_amount_rmb)]]

export_report_to_dict(r) ==
    [total_profit_loss_rmb |-> float(r.total_profit_loss_rmb),
     summary |-> [has_profit |-> has_profit(r),
                  has_loss |-> has_loss(r),
                  profitable_asset_types |->
                      get_profitable_asset_types(r.asset_type_summaries),
                  loss_asset_types |-> get_loss_asset_types(r.asset_type_summaries)],
     asset_types |-> [i \in 1..Len(r.asset_type_summaries) |->
                         [type_code |-> r.asset_type_summaries[i].asset_type,
                          total_profit_loss_rmb |->
                              float(r.asset_type_summaries[i].total_profit_loss_rmb),
                          details |->
                              DetailData(r.asset_type_summaries[i].profit_loss_details)]]]

----------------------------------------------------------------------------
(* AnalyzePortfolioUseCase *)

\* the attributes an AnalyzePortfolioUseCase object has
AnalyzePortfolioUseCaseAttributes ==
    {"__init__", "execute", "log_analysis_summary", "_asset_service", "_report_service"}

\* a name __x written inside the body of class C is compiled to _C__x
mangle(class, name) == "_" \o class \o name

AttributeError(m) == Raise("AttributeError", m)

\* attribute lookup on the use case object
getattr(attributes, name) ==
    IF name \in attributes
    THEN Ok(name)
    ELSE AttributeError("'AnalyzePortfolioUseCase' object has no attribute '" \o name \o "'")

\* the dict of the except branch of execute
AnalysisFailed(e) == [success |-> FALSE, error |-> str(e), portfolio_summary |-> None]

\* AnalyzePortfolioUseCase.execute: the dict it returns
AnalyzePortfolioUseCase_execute(rates, data, output_format) ==
    LET profit_loss_report == analyze_profit_loss(rates, data)
        portfolio_summary == get_portfolio_summary(data)
        log == getattr(AnalyzePortfolioUseCaseAttributes,
                       mangle("AnalyzePortfolioUseCase", "__log_analysis_summary"))
        result == [success |-> TRUE, portfolio_summary |-> portfolio_summary.value]
        text == IF output_format \in {"text", "both"}
                THEN "report_text" :> format_profit_loss_report(profit_loss_report.value)
                ELSE <<>>
        dict == IF output_format \in {"dict", "both"}
                THEN "report_data" :> export_report_to_dict(profit_loss_report.value)
                ELSE <<>>
    IN  IF profit_loss_report.kind = "raise"
        THEN AnalysisFailed(profit_loss_report)
        ELSE IF portfolio_summary.kind = "raise"
             THEN AnalysisFailed(portfolio_summary)
             ELSE IF log.kind = "raise"
                  THEN AnalysisFailed(log)
                  ELSE result @@ text @@ dict

----------------------------------------------------------------------------
(* The two use cases run over a portfolio file, a rate table and a disk *)

MaxTemplateAssets == 3

TemplateNames == {"A", "B", "C"}
TemplateTypes == {STOCK, CREDIT_CARD}

\* <<current_account_balance, last_month_account_balance>>; the second pair is
\* one the Asset constructor rejects
TemplateBalances == {<<Amt(500, 0), Amt(1, 2)>>, <<Amt(-1, 0), Amt(0, 2)>>}

TemplateRecords ==
    {[name |-> n, money_code |-> USD, current_account_balance |-> b[1],
      last_month_account_balance |-> b[2]] :
        n \in TemplateNames, b \in TemplateBalances}

TemplateRows ==
    UNION {[1..n -> TemplateTypes \X TemplateRecords] : n \in 0..MaxTemplateAssets}

TemplateFiles == {None} \cup {Dict(FileOf(<<>>, rows)) : rows \in TemplateRows}

UseCaseTables == {<<>>, <<USD, CNY>> :> Rate(70, 1)}

Disks == {"ok", "mkdir_fails", "open_fails"}
OutputFormats == {"text", "dict", "both", "json"}

InitUseCases ==
    /\ exchange_rates \in UseCaseTables
    /\ file_data \in TemplateFiles
    /\ next_month_file = NoFile
    /\ run = NoExecution
    /\ call = NoModelCall
    /\ report = NotRun
    /\ ret = NoCall
    /\ heap = <<>>
    /\ result_ref = NoRollForward

\* AnalyzePortfolioUseCase(...).execute(output_format)
AnalyzePortfolio(output_format) ==
    /\ run' = [use_case |-> "analyze_portfolio", output_format |-> output_format,
               disk |-> "", saved |-> <<>>,
               result |-> AnalyzePortfolioUseCase_execute(exchange_rates, file_data,
                                                          output_format)]
    /\ UNCHANGED <<exchange_rates, ret, file_data, report, heap, result_ref,
                   next_month_file, call>>

\* GenerateTemplateUseCase(...).execute() on a disk in the given condition
GenerateTemplate(disk) ==
    LET executed == GenerateTemplateUseCase_execute(disk, file_data, next_month_file)
    IN  /\ next_month_file' = executed.file
        /\ run' = [use_case |-> "generate_template", output_format |-> "",
                   disk |-> disk, saved |-> executed.saved, result |-> executed.result]
        /\ UNCHANGED <<exchange_rates, ret, file_data, report, heap, result_ref, call>>

NextUseCases ==
    \/ \E output_format \in OutputFormats : AnalyzePortfolio(output_format)
    \/ \E disk \in Disks : GenerateTemplate(disk)

SpecUseCases == InitUseCases /\ [][NextUseCases]_vars

----------------------------------------------------------------------------
(* Properties of the use cases *)

TemplateRun == run.use_case = "generate_template"
AnalysisRun == run.use_case = "analyze_portfolio"

\* the assets of a portfolio that have the given type, in the portfolio's order
AssetsOfType(portfolio, asset_type) ==
    SelectSeq(portfolio, LAMBDA asset : asset.asset_type = asset_type)

TypesOf(portfolio) == {portfolio[i].asset_type : i \in 1..Len(portfolio)}

\* the template record of an asset after the monthly roll-forward
RolledForward(asset) ==
    [name |-> asset.name,
     money_code |-> asset.currency,
     current_account_balance |->
         float(IF asset.asset_type = CREDIT_CARD THEN asset.current_balance ELSE 0),
     last_month_account_balance |->
         float(IF asset.asset_type = CREDIT_CARD
               THEN asset.previous_balance
               ELSE asset.current_balance)]

Elements(seq) == {seq[i] : i \in 1..Len(seq)}

\* C11: when the portfolio loads and the call returns, the template has
\* exactly one key per asset type of the loaded portfolio, the list under a
\* key holds one record per asset of that type carrying its rolled-forward
\* balances, and the statistics count the assets and the types; a one-type
\* portfolio of 3 assets gives 1 key, a list of 3, total_assets = 3 and
\* asset_types_count = 1.
C11_TemplateHasOneRecordPerAsset ==
    (TemplateRun /\ run.disk # "mkdir_fails" /\ Loaded.kind = "ok") =>
        /\ run.result.success
        /\ LET portfolio == Loaded.value
               template == run.result.template_data
               statistics == run.result.statistics
           IN  /\ Len(template) = Cardinality(TypesOf(portfolio))
               /\ {template[i].asset_type_str : i \in 1..Len(template)} = TypesOf(portfolio)
               /\ \A i \in 1..Len(template) :
                      LET assets == AssetsOfType(portfolio, template[i].asset_type_str)
                      IN  /\ Len(template[i].asset_list) = Len(assets)
                          /\ \A j \in 1..Len(assets) :
                                 RolledForward(assets[j]) \in Elements(template[i].asset_list)
               /\ statistics.total_assets = Len(portfolio)
               /\ statistics.asset_types_count = Cardinality(TypesOf(portfolio))
               /\ (Len(portfolio) = 3 /\ Cardinality(TypesOf(portfolio)) = 1) =>
                      /\ Len(template) = 1
                      /\ Len(template[1].asset_list) = 3
                      /\ statistics.total_assets = 3
                      /\ statistics.asset_types_count = 1

\* a template was generated for three stocks
C11_Witness ==
    /\ TemplateRun
    /\ run.result.success
    /\ Loaded.kind = "ok"
    /\ Len(Loaded.value) = 3
    /\ TypesOf(Loaded.value) = {STOCK}
    /\ Len(run.result.template_data) = 1
    /\ run.result.statistics.total_assets = 3

\* the number of asset records in a mapping from type codes to record lists
RECURSIVE RecordCount(_)
RecordCount(items) ==
    IF items = <<>> THEN 0 ELSE Len(Head(items).asset_list) + RecordCount(Tail(items))

\* C12: after a successful template generation the structure given to
\* save_next_month_portfolio is the structure returned to the caller, and
\* when the write went through the next-month file holds that structure, one
\* record per asset of the rolled-forward portfolio.
C12_SavedIsReturned ==
    (TemplateRun /\ run.result.success) =>
        /\ run.saved = run.result.template_data
        /\ run.disk = "ok" =>
               /\ next_month_file = Dict(run.result.template_data)
               /\ RecordCount(next_month_file.items) = Len(Loaded.value)

\* C13: when opening the next-month file for writing fails, the template use
\* case reports success = False.
C13_FailedWriteIsReported ==
    (TemplateRun /\ run.disk = "open_fails") => ~run.result.success

\* C14: when analyze_profit_loss and get_portfolio_summary succeed, execute
\* returns success = True with the portfolio summary, report_text exactly for
\* the formats text and both, report_data exactly for dict and both.
C14_AnalysisResultShape ==
    (/\ AnalysisRun
     /\ analyze_profit_loss(exchange_rates, file_data).kind = "ok"
     /\ get_portfolio_summary(file_data).kind = "ok") =>
        /\ run.result.success
        /\ run.result.portfolio_summary = get_portfolio_summary(file_data).value
        /\ "report_text" \in DOMAIN run.result <=> run.output_format \in {"text", "both"}
        /\ "report_data" \in DOMAIN run.result <=> run.output_format \in {"dict", "both"}

\* a step of the executed use case failed: the repository could not load the
\* portfolio, the analysis raised, or the next-month file could not be written
FailureOccurred ==
    \/ Loaded.kind = "raise"
    \/ AnalysisRun /\ analyze_profit_loss(exchange_rates, file_data).kind = "raise"
    \/ TemplateRun /\ run.disk # "ok"

\* C15: a use case always returns a dict, and when a step failed the dict
\* has success = False and a non-empty error message.
C15_FailuresAreReported ==
    run.use_case # "none" =>
        /\ "success" \in DOMAIN run.result
        /\ FailureOccurred =>
               /\ ~run.result.success
               /\ "error" \in DOMAIN run.result
               /\ run.result.error # ""

----------------------------------------------------------------------------
(* Asset objects from construction on *)

NewAssetNames == {"", " ", "X"}
NewAssetTypes == {STOCK, CREDIT_CARD}
NewCurrentBalances == {Amt(-1, 2), Amt(0, 2), Amt(5, 0)}
NewPreviousBalances == {Amt(-1, 2), Amt(0, 2)}

InitAssetLife ==
    /\ heap = <<>>
    /\ result_ref = NoRollForward
    /\ call = NoModelCall
    /\ exchange_rates = <<>>
    /\ ret = NoCall
    /\ file_data = None
    /\ report = NotRun
    /\ next_month_file = NoFile
    /\ run = NoExecution

\* Asset(name, asset_type, currency, current_balance, previous_balance): an
\* object comes to exist only when __post_init__ returns
NewAsset(name, asset_type, currency, current_balance, previous_balance) ==
    /\ Len(heap) < MaxObjects
    /\ LET result == Asset(name, asset_type, currency, current_balance, previous_balance)
       IN  /\ heap' = IF result.kind = "raise" THEN heap ELSE Append(heap, result.value)
           /\ call' = [op |-> "Asset", name |-> name,
                       current_balance |-> current_balance,
                       previous_balance |-> previous_balance,
                       raised |-> result.kind = "raise",
                       created |-> IF result.kind = "raise" THEN 0 ELSE Len(heap) + 1]
    /\ UNCHANGED <<exchange_rates, ret, file_data, report, result_ref, next_month_file, run>>

NextAssetLife ==
    \/ \E name \in NewAssetNames, asset_type \in NewAssetTypes,
          current_balance \in NewCurrentBalances, previous_balance \in NewPreviousBalances :
           NewAsset(name, asset_type, CNY, current_balance, previous_balance)
    \/ \E self \in 1..Len(heap) : PrepareForNextMonth(self)

SpecAssetLife == InitAssetLife /\ [][NextAssetLife]_vars

ValidAsset(asset) ==
    /\ strip(asset.name) # ""
    /\ asset.current_balance >= 0
    /\ asset.previous_balance >= 0

\* C16: every Asset object has a name that is non-empty after trimming and
\* non-negative balances; a construction with an empty or blank name or a
\* negative balance raises and creates no object, any other construction
\* creates the object; prepare_for_next_month of an object returns an object.
C16_AssetsAreValid ==
    /\ \A i \in 1..Len(heap) : ValidAsset(heap[i])
    /\ call.op = "Asset" =>
           IF \/ strip(call.name) = ""
              \/ call.current_balance < 0
              \/ call.previous_balance < 0
           THEN call.raised /\ call.created = 0
           ELSE ~call.raised /\ call.created \in 1..Len(heap)
    /\ result_ref.self # 0 =>
           /\ ~result_ref.raised
           /\ result_ref.out \in 1..Len(heap)

\* a construction with a negative previous balance has been rejected, and an
\* object with a positive balance has been rolled forward
C16_Witness ==
    /\ call.op = "Asset"
    /\ call.name = "X"
    /\ call.current_balance >= 0
    /\ call.previous_balance < 0
    /\ call.raised
    /\ result_ref.out # 0
    /\ heap[result_ref.self].current_balance > 0

----------------------------------------------------------------------------
(* Asset: profit and loss of one asset *)

Asset_has_profit_or_even(asset) == calculate_profit_loss(asset) >= 0

\* Asset.has_profit, Asset.has_loss
Asset_has_profit(asset) == calculate_profit_loss(asset) > 0
Asset_has_loss(asset) == calculate_profit_loss(asset) < 0

CalculateProfitLoss(self) ==
    /\ call' = [op |-> "calculate_profit_loss", self |-> self,
                result |-> calculate_profit_loss(heap[self])]
    /\ UNCHANGED <<exchange_rates, ret, file_data, report, heap, result_ref,
                   next_month_file, run>>

HasProfit(self) ==
    /\ call' = [op |-> "has_profit", self |-> self, result |-> Asset_has_profit(heap[self])]
    /\ UNCHANGED <<exchange_rates, ret, file_data, report, heap, result_ref,
                   next_month_file, run>>

HasLoss(self) ==
    /\ call' = [op |-> "has_loss", self |-> self, result |-> Asset_has_loss(heap[self])]
    /\ UNCHANGED <<exchange_rates, ret, file_data, report, heap, result_ref,
                   next_month_file, run>>

NextProfitLoss ==
    \E self \in 1..Len(heap) :
        \/ CalculateProfitLoss(self)
        \/ HasProfit(self)
        \/ HasLoss(self)

\* one Asset whose profit and loss are asked for
SpecProfitLoss == InitAsset /\ [][NextProfitLoss]_vars

\* C18: calculate_profit_loss() is current_balance - previous_balance,
\* has_profit() is true exactly when that difference is > 0, has_loss()
\* exactly when it is < 0; no asset has both, and an asset with equal
\* balances has neither.
C18_ProfitLossOfAsset ==
    call.op # "none" =>
        LET asset == heap[call.self]
            difference == asset.current_balance - asset.previous_balance
        IN  /\ call.op = "calculate_profit_loss" => call.result = difference
            /\ call.op = "has_profit" => (call.result <=> difference > 0)
            /\ call.op = "has_loss" => (call.result <=> difference < 0)
            /\ ~(Asset_has_profit(asset) /\ Asset_has_loss(asset))
            /\ difference = 0 => ~Asset_has_profit(asset) /\ ~Asset_has_loss(asset)

\* has_profit() was asked of an asset whose balances are equal and not zero
C18_Witness ==
    /\ call.op = "has_profit"
    /\ heap[call.self].current_balance = heap[call.self].previous_balance
    /\ heap[call.self].current_balance > 0
    /\ ~call.result

----------------------------------------------------------------------------
(* Portfolio built from a list of Asset objects *)

PortfolioNames == {"A", "a", "B"}
PortfolioTypes == {STOCK, FUND}
PortfolioBalances == {Amt(0, 2), Amt(5, 0)}

PortfolioAssets ==
    {r.value : r \in {Asset(n, ty, CNY, cur, Amt(0, 2)) :
                        n \in PortfolioNames, ty \in PortfolioTypes,
                        cur \in PortfolioBalances}}

\* heap is the list of assets the portfolio is built from
InitPortfolio ==
    /\ heap \in UNION {[1..n -> PortfolioAssets] : n \in 0..MaxObjects}
    /\ call = NoModelCall
    /\ result_ref = NoRollForward
    /\ exchange_rates = <<>>
    /\ ret = NoCall
    /\ file_data = None
    /\ report = NotRun
    /\ next_month_file = NoFile
    /\ run = NoExecution

\* Portfolio(assets)
NewPortfolio ==
    /\ call' = [op |-> "Portfolio", result |-> Portfolio(heap)]
    /\ UNCHANGED <<exchange_rates, ret, file_data, report, heap, result_ref,
                   next_month_file, run>>

\* Portfolio(assets).size()
Size ==
    /\ Portfolio(heap).kind = "ok"
    /\ call' = [op |-> "size", result |-> Ok(size(Portfolio(heap).value))]
    /\ UNCHANGED <<exchange_rates, ret, file_data, report, heap, result_ref,
                   next_month_file, run>>

\* Portfolio(assets).group_by_asset_type()
GroupByAssetType ==
    /\ Portfolio(heap).kind = "ok"
    /\ call' = [op |-> "group_by_asset_type",
                result |-> Ok(group_by_asset_type(Portfolio(heap).value))]
    /\ UNCHANGED <<exchange_rates, ret, file_data, report, heap, result_ref,
                   next_month_file, run>>

NextPortfolio ==
    \/ NewPortfolio
    \/ Size
    \/ GroupByAssetType

SpecPortfolio == InitPortfolio /\ [][NextPortfolio]_vars

SharedName == \E i \in 1..Len(heap), j \in 1..Len(heap) : i # j /\ heap[i].name = heap[j].name

\* C17: constructing a Portfolio from a list in which two assets have the
\* same name, compared exactly, raises the duplicate-name error; from a list
\* of pairwise distinct names it succeeds, and size() is the number of
\* assets given.
C17_DuplicateNamesRejected ==
    /\ call.op = "Portfolio" =>
           IF SharedName
           THEN /\ call.result.kind = "raise"
                /\ call.result.error = "ValueError"
                /\ call.result.message = "Portfolio contains duplicate asset names"
           ELSE call.result.kind = "ok"
    /\ call.op = "size" => ~SharedName /\ call.result.value = Len(heap)

\* a list with the names A and a was accepted
C17_Witness ==
    /\ call.op = "Portfolio"
    /\ call.result.kind = "ok"
    /\ Len(heap) = 2
    /\ {heap[1].name, heap[2].name} = {"A", "a"}

RECURSIVE SumOfGroupSizes(_)
SumOfGroupSizes(grouped) ==
    IF grouped = <<>> THEN 0 ELSE Len(Head(grouped).assets) + SumOfGroupSizes(Tail(grouped))

\* C19: the groups of group_by_asset_type have distinct keys, none is empty,
\* every asset of the portfolio is in the group keyed by its asset_type and
\* in no other, and the sizes of the groups add up to size().
C19_GroupsPartition ==
    call.op = "group_by_asset_type" =>
        LET grouped == call.result.value
        IN  /\ \A g \in 1..Len(grouped), h \in 1..Len(grouped) :
                   grouped[g].asset_type = grouped[h].asset_type => g = h
            /\ \A g \in 1..Len(grouped) : Len(grouped[g].assets) > 0
            /\ \A i \in 1..Len(heap) :
                   \E g \in 1..Len(grouped) :
                       /\ grouped[g].asset_type = heap[i].asset_type
                       /\ Cardinality({k \in 1..Len(grouped[g].assets) :
                                          grouped[g].assets[k] = heap[i]}) = 1
                       /\ \A h \in 1..Len(grouped) :
                              h # g => heap[i] \notin Elements(grouped[h].assets)
            /\ SumOfGroupSizes(grouped) = Len(heap)

\* a portfolio of two types was grouped, one group holding two assets
C19_Witness ==
    /\ call.op = "group_by_asset_type"
    /\ Len(call.result.value) = 2
    /\ Len(heap) = 3

----------------------------------------------------------------------------
(* ProfitLossReport objects and their classification methods *)

ReportTypes == {STOCK, FUND, CREDIT_CARD}

\* <<current_month_balance, last_month_balance>> of the one CNY asset of a summary
ReportBalances == {<<Amt(5, 0), Amt(0, 2)>>, <<Amt(0, 2), Amt(1, 2)>>,
                   <<Amt(0, 2), Amt(5, 0)>>, <<Amt(0, 2), Amt(0, 2)>>}

\* the summary of a type that holds one CNY asset
SummaryOf(asset_type, b) ==
    AssetTypeSummary(asset_type, b[1] - b[2],
                     <<ProfitLossInfo([name |-> "X", money_code |-> CNY,
                                       last_month_balance |-> b[2],
                                       current_month_balance |-> b[1],
                                       profit_loss_amount_rmb |-> b[1] - b[2]]).value>>)

\* lists of summaries of distinct types, as the loop over the groups builds them
SummaryLists ==
    {summaries \in UNION {[1..n -> {SummaryOf(ty, b) : ty \in ReportTypes, b \in ReportBalances}] :
                            n \in 0..MaxAssets} :
        \A i \in 1..Len(summaries), j \in 1..Len(summaries) :
            summaries[i].asset_type = summaries[j].asset_type => i = j}

\* the report of a list of summaries: its total is the sum of their totals
InitReport ==
    /\ report \in {Ok(ProfitLossReport(summaries, SumOfSummaries(summaries))) :
                     summaries \in SummaryLists}
    /\ call = NoModelCall
    /\ exchange_rates = <<>>
    /\ ret = NoCall
    /\ file_data = None
    /\ heap = <<>>
    /\ result_ref = NoRollForward
    /\ next_month_file = NoFile
    /\ run = NoExecution

ReportHasProfit ==
    /\ call' = [op |-> "has_profit", result |-> has_profit(report.value)]
    /\ UNCHANGED <<exchange_rates, ret, file_data, report, heap, result_ref,
                   next_month_file, run>>

ReportHasLoss ==
    /\ call' = [op |-> "has_loss", result |-> has_loss(report.value)]
    /\ UNCHANGED <<exchange_rates, ret, file_data, report, heap, result_ref,
                   next_month_file, run>>

GetProfitableAssetTypes ==
    /\ call' = [op |-> "get_profitable_asset_types",
                result |-> get_profitable_asset_types(report.value.asset_type_summaries)]
    /\ UNCHANGED <<exchange_rates, ret, file_data, report, heap, result_ref,
                   next_month_file, run>>

GetLossAssetTypes ==
    /\ call' = [op |-> "get_loss_asset_types",
                result |-> get_loss_asset_types(report.value.asset_type_summaries)]
    /\ UNCHANGED <<exchange_rates, ret, file_data, report, heap, result_ref,
                   next_month_file, run>>

NextReport ==
    \/ ReportHasProfit
    \/ ReportHasLoss
    \/ GetProfitableAssetTypes
    \/ GetLossAssetTypes

SpecReport == InitReport /\ [][NextReport]_vars

\* the types whose own summary total has the given sign (1, -1)
TypesWithSign(sign) ==
    {Summaries[i].asset_type : i \in {k \in 1..Len(Summaries) :
                                         sign * Summaries[k].total_profit_loss_rmb > 0}}

\* C20: has_profit() is true exactly when the report total is > 0 and
\* has_loss() exactly when it is < 0; get_profitable_asset_types() lists
\* exactly the types whose own summary total is > 0 and
\* get_loss_asset_types() exactly those whose own total is < 0, whatever the
\* report total; no type is in both lists.
C20_ReportClassification ==
    /\ call.op = "has_profit" => (call.result <=> report.value.total_profit_loss_rmb > 0)
    /\ call.op = "has_loss" => (call.result <=> report.value.total_profit_loss_rmb < 0)
    /\ call.op = "get_profitable_asset_types" =>
           /\ Elements(call.result) = TypesWithSign(1)
           /\ Len(call.result) = Cardinality(TypesWithSign(1))
    /\ call.op = "get_loss_asset_types" =>
           /\ Elements(call.result) = TypesWithSign(-1)
           /\ Len(call.result) = Cardinality(TypesWithSign(-1))
    /\ Elements(get_profitable_asset_types(Summaries))
           \cap Elements(get_loss_asset_types(Summaries)) = {}

\* a report with a positive total lists a type that made a loss
C20_Witness ==
    /\ call.op = "get_loss_asset_types"
    /\ Len(call.result) = 1
    /\ report.value.total_profit_loss_rmb > 0

----------------------------------------------------------------------------
(* YamlAssetRepository.load_portfolio over files with records it cannot use *)

LoadNames == {"A", "B", " "}
LoadMoneyCodes == {USD, "EUR"}
LoadTypeCodes == {STOCK, FUND, "bond"}
LoadBalances == {<<Amt(5, 0), Amt(1, 2)>>, <<Amt(-1, 0), Amt(1, 2)>>}

\* records with every field, and records without last_month_account_balance
LoadRecords ==
    {[name |-> n, money_code |-> c, current_account_balance |-> b[1],
      last_month_account_balance |-> b[2]] :
        n \in LoadNames, c \in LoadMoneyCodes, b \in LoadBalances}
    \cup {[name |-> n, money_code |-> USD, current_account_balance |-> Amt(5, 0)] :
            n \in LoadNames \ {" "}}

LoadRows == UNION {[1..n -> LoadTypeCodes \X LoadRecords] : n \in 0..MaxAssets}

LoadFiles == {None} \cup {Dict(FileOf(<<>>, rows)) : rows \in LoadRows}

InitLoad ==
    /\ file_data \in LoadFiles
    /\ call = NoModelCall
    /\ exchange_rates = <<>>
    /\ ret = NoCall
    /\ report = NotRun
    /\ heap = <<>>
    /\ result_ref = NoRollForward
    /\ next_month_file = NoFile
    /\ run = NoExecution

\* YamlAssetRepository(file_path).load_portfolio()
LoadPortfolio ==
    /\ call' = [op |-> "load_portfolio", result |-> load_portfolio(file_data)]
    /\ UNCHANGED <<exchange_rates, ret, file_data, report, heap, result_ref,
                   next_month_file, run>>

NextLoad == LoadPortfolio

SpecLoad == InitLoad /\ [][NextLoad]_vars

\* the records of a file in file order, each with the code of its list
RECURSIVE FlatRows(_)
FlatRows(items) ==
    IF items = <<>>
    THEN <<>>
    ELSE [j \in 1..Len(Head(items).asset_list) |->
             <<Head(items).asset_type_str, Head(items).asset_list[j]>>]
         \o FlatRows(Tail(items))

\* a record from which an Asset can be made
Usable(record) ==
    /\ {"name", "money_code", "current_account_balance",
        "last_month_account_balance"} \subseteq DOMAIN record
    /\ record.money_code \in MoneyCode
    /\ record.name \notin {"", " "}
    /\ record.current_account_balance >= 0
    /\ record.last_month_account_balance >= 0

AssetOfRow(row) ==
    [name |-> row[2].name, asset_type |-> row[1], currency |-> row[2].money_code,
     current_balance |-> row[2].current_account_balance,
     previous_balance |-> row[2].last_month_account_balance]

LoadedFile == call.op = "load_portfolio" /\ file_data # None

UsableRows(rows) == SelectSeq(rows, LAMBDA row : Usable(row[2]))
KnownRows(rows) == SelectSeq(rows, LAMBDA row : row[1] \in AssetType)

DistinctNames(rows) ==
    \A i \in 1..Len(rows), j \in 1..Len(rows) : rows[i][2].name = rows[j][2].name => i = j

\* C21: when every list of the file is under a known type code and the
\* records from which an Asset can be made have distinct names, the load
\* returns a Portfolio holding exactly those records, each with the type of
\* its list; the other records are skipped.
C21_TolerantIngestion ==
    LoadedFile =>
        LET rows == FlatRows(file_data.items)
            remaining == UsableRows(rows)
        IN  (KnownRows(rows) = rows /\ DistinctNames(remaining)) =>
                /\ call.result.kind = "ok"
                /\ Len(call.result.value) = Len(remaining)
                /\ Elements(call.result.value) = {AssetOfRow(remaining[i]) : i \in 1..Len(remaining)}

\* a file of one usable and one unusable record was loaded
C21_Witness ==
    /\ LoadedFile
    /\ Len(FlatRows(file_data.items)) = 2
    /\ KnownRows(FlatRows(file_data.items)) = FlatRows(file_data.items)
    /\ Len(UsableRows(FlatRows(file_data.items))) = 1
    /\ call.result.kind = "ok"
    /\ Len(call.result.value) = 1

HasUnknownCode == \E i \in 1..Len(file_data.items) : file_data.items[i].asset_type_str \notin AssetType

\* C22 as stated: loading a file that has a list under a code that is no
\* asset type fails with RepositoryError.
C22_AsStated ==
    (LoadedFile /\ HasUnknownCode) =>
        call.result.kind = "raise" /\ call.result.error = "RepositoryError"

\* C22: a list under a code that is no asset type is skipped: the load
\* returns or raises as for the usable records under the known codes alone,
\* and no record of the skipped list gets a type.
C22_UnknownCodeSkipped ==
    LoadedFile =>
        LET remaining == UsableRows(KnownRows(FlatRows(file_data.items)))
        IN  IF DistinctNames(remaining)
            THEN /\ call.result.kind = "ok"
                 /\ Len(call.result.value) = Len(remaining)
                 /\ Elements(call.result.value) =
                        {AssetOfRow(remaining[i]) : i \in 1..Len(remaining)}
            ELSE call.result.kind = "raise" /\ call.result.error = "RepositoryError"

\* a file with a usable record under bond and one under stock was loaded
C22_Witness ==
    /\ LoadedFile
    /\ HasUnknownCode
    /\ Len(UsableRows(FlatRows(file_data.items))) = 2
    /\ call.result.kind = "ok"
    /\ Len(call.result.value) = 1

----------------------------------------------------------------------------
(* YamlAssetRepository: save_portfolio followed by load_portfolio *)

\* YamlAssetRepository._convert_portfolio_to_data: one key per type in the
\* order of group_by_asset_type, one record per asset, the balances as floats
_convert_portfolio_to_data(portfolio) == NextMonthData(group_by_asset_type(portfolio))

\* YamlAssetRepository.save_portfolio
save_portfolio(disk, file, portfolio) ==
    LET written == write_yaml_file(disk, file, _convert_portfolio_to_data(portfolio))
    IN  IF written.result.kind = "raise"
        THEN [file |-> written.file,
              result |-> RepositoryError("Failed to save portfolio")]
        ELSE written

RoundTripNames == {"A", "B"}
RoundTripTypes == {STOCK, FUND}
RoundTripBalances == {Amt(1, 2), Amt(5, 0), LongAmount, LongAmount + 1}

RoundTripAssets ==
    {r.value : r \in {Asset(n, ty, USD, cur, Amt(0, 2)) :
                        n \in RoundTripNames, ty \in RoundTripTypes,
                        cur \in RoundTripBalances}}

\* the portfolios that can be constructed from at most MaxAssets assets
RoundTripPortfolios ==
    {r.value : r \in {p \in {Portfolio(assets) :
                               assets \in UNION {[1..n -> RoundTripAssets] : n \in 0..MaxAssets}} :
                        p.kind = "ok"}}

\* heap is the portfolio in memory, file_data the file of the repository
InitRoundTrip ==
    /\ heap \in RoundTripPortfolios
    /\ file_data = None
    /\ call = NoModelCall
    /\ exchange_rates = <<>>
    /\ ret = NoCall
    /\ report = NotRun
    /\ result_ref = NoRollForward
    /\ next_month_file = NoFile
    /\ run = NoExecution

\* YamlAssetRepository(file_path).save_portfolio(portfolio)
SavePortfolio(disk) ==
    LET saved == save_portfolio(disk, file_data, heap)
    IN  /\ file_data' = saved.file
        /\ call' = [op |-> "save_portfolio", result |-> saved.result]
        /\ UNCHANGED <<exchange_rates, ret, report, heap, result_ref,
                       next_month_file, run>>

NextRoundTrip ==
    \/ \E disk \in Disks : SavePortfolio(disk)
    \/ LoadPortfolio

SpecRoundTrip == InitRoundTrip /\ [][NextRoundTrip]_vars

\* the portfolio was saved and the file was loaded back
SavedAndLoaded == call.op = "load_portfolio" /\ file_data # None

\* C23: a portfolio that was saved loads back as a portfolio of the same
\* assets (name, type, currency and both balances; the order is not
\* compared), and the data of the next-month template made from the saved
\* file is loaded by the same loader without a failure.
C23_RoundTrip ==
    SavedAndLoaded =>
        /\ call.result.kind = "ok"
        /\ Len(call.result.value) = Len(heap)
        /\ Elements(call.result.value) = Elements(heap)
        /\ LET generated == generate_next_month_template("ok", file_data, next_month_file)
           IN  /\ generated.result.kind = "ok"
               /\ load_portfolio(Dict(generated.result.value)).kind = "ok"

----------------------------------------------------------------------------
(* AssetManagementService.get_portfolio_summary next to the template use case *)

SummaryNames == {"A", "B", "C"}
SummaryTypes == {STOCK, FUND}

SummaryRecords ==
    {[name |-> n, money_code |-> USD, current_account_balance |-> Amt(5, 0),
      last_month_account_balance |-> Amt(1, 2)] : n \in SummaryNames}

SummaryRows == UNION {[1..n -> SummaryTypes \X SummaryRecords] : n \in 0..MaxAssets}

SummaryFiles == {None} \cup {Dict(FileOf(<<>>, rows)) : rows \in SummaryRows}

InitSummary ==
    /\ file_data \in SummaryFiles
    /\ exchange_rates \in UseCaseTables
    /\ next_month_file = NoFile
    /\ run = NoExecution
    /\ call = NoModelCall
    /\ report = NotRun
    /\ ret = NoCall
    /\ heap = <<>>
    /\ result_ref = NoRollForward

\* AssetManagementService(...).get_portfolio_summary()
GetPortfolioSummary ==
    /\ call' = [op |-> "get_portfolio_summary", result |-> get_portfolio_summary(file_data)]
    /\ UNCHANGED <<exchange_rates, ret, file_data, report, heap, result_ref,
                   next_month_file, run>>

NextSummary ==
    \/ GetPortfolioSummary
    \/ \E disk \in Disks : GenerateTemplate(disk)

SpecSummary == InitSummary /\ [][NextSummary]_vars

SummaryCalled == call.op = "get_portfolio_summary"

RECURSIVE SumOfCounts(_)
SumOfCounts(breakdown) ==
    IF breakdown = <<>>
    THEN 0
    ELSE Head(breakdown).asset_count + SumOfCounts(Tail(breakdown))

\* C24: the summary of a portfolio that loads has total_assets equal to the
\* size of the portfolio, asset_types equal to the number of distinct types,
\* and a breakdown of one entry per type present whose counts add up to
\* total_assets; a step that takes the summary leaves the portfolio file, the
\* next-month file, the rate table and the record of conversions unchanged.
C24_SummaryIsReadOnly ==
    /\ [](SummaryCalled /\ Loaded.kind = "ok" =>
            /\ call.result.kind = "ok"
            /\ call.result.value.total_assets = Len(Loaded.value)
            /\ call.result.value.asset_types = Cardinality(TypesOf(Loaded.value))
            /\ Len(call.result.value.asset_type_breakdown) = Cardinality(TypesOf(Loaded.value))
            /\ {entry.asset_type : entry \in Elements(call.result.value.asset_type_breakdown)}
                   = TypesOf(Loaded.value)
            /\ SumOfCounts(call.result.value.asset_type_breakdown)
                   = call.result.value.total_assets)
    /\ [][call' # call =>
            UNCHANGED <<file_data, next_month_file, exchange_rates, ret, report, run>>]_vars

\* the summary of two assets of one type was taken after a template was written
C24_Witness ==
    /\ SummaryCalled
    /\ call.result.kind = "ok"
    /\ call.result.value.total_assets = 2
    /\ call.result.value.asset_types = 1
    /\ next_month_file # NoFile

----------------------------------------------------------------------------
(* main: the command line over a portfolio file, a provider and a disk *)

Commands == {"analyze", "template", "both"}
Formats == {"text", "dict", "both"}

\* ApplicationConfig as main builds it: --provider is one of argparse's choices
ApplicationConfig(asset_file_exists) ==
    [asset_file_exists |-> asset_file_exists,
     exchange_rate_provider |-> "boc_hk",
     supported_providers |-> {"boc_hk"}]

validate_configuration(config) ==
    IF ~config.asset_file_exists
    THEN FALSE
    ELSE IF config.exchange_rate_provider \notin config.supported_providers
         THEN FALSE
         ELSE TRUE

\* main.analyze_portfolio and main.generate_next_month_template: the flag
\* of the dict the use case returned
analyze_portfolio(rates, data, output_format) ==
    AnalyzePortfolioUseCase_execute(rates, data, output_format).success

\* main after parse_args, given what the provider fetched for the exchange
\* service, the flag analyze_portfolio returns and the outcome of the template
\* use case: the exit code and the next-month file it leaves.
\* get_asset_management_service builds the exchange service for either
\* command, and an exception of its constructor ends in the except branch
main(command, config, fetched, analyzed, executed, file) ==
    IF ~validate_configuration(config)
    THEN [exit_code |-> 1, file |-> file]
    ELSE IF load_exchange_rates(<<>>, fetched).result.kind = "raise"
         THEN [exit_code |-> 1, file |-> file]
         ELSE LET success == /\ (command \in {"analyze", "both"} => analyzed)
                             /\ (command \in {"template", "both"} => executed.result.success)
              IN  [exit_code |-> IF success THEN 0 ELSE 1,
                   file |-> IF command \in {"template", "both"}
                            THEN executed.file
                            ELSE file]

\* no file, an empty file, a file of a stock in dollars and a file whose
\* record has a negative balance
MainFiles ==
    {None, Dict(<<>>),
     Dict(FileOf(<<>>, <<<<STOCK, [name |-> "A", money_code |-> USD,
                                   current_account_balance |-> Amt(5, 0),
                                   last_month_account_balance |-> Amt(1, 2)]>>>>)),
     Dict(FileOf(<<>>, <<<<FUND, [name |-> "B", money_code |-> CNY,
                                  current_account_balance |-> Amt(-1, 0),
                                  last_month_account_balance |-> Amt(1, 2)]>>>>))}

InitMain ==
    /\ file_data \in MainFiles
    /\ exchange_rates = <<>>
    /\ next_month_file = NoFile
    /\ run = NoExecution
    /\ call = NoModelCall
    /\ report = NotRun
    /\ ret = NoCall
    /\ heap = <<>>
    /\ result_ref = NoRollForward

\* one run of the program; a file that parses exists
Main(command, output_format, asset_file_exists, fetched, disk) ==
    /\ file_data # None => asset_file_exists
    /\ run' = [use_case |-> "main", command |-> command,
               output_format |-> output_format,
               asset_file_exists |-> asset_file_exists,
               fetched |-> fetched, disk |-> disk,
               exit |-> main(command, ApplicationConfig(asset_file_exists), fetched,
                             analyze_portfolio(load_exchange_rates(<<>>, fetched).rates,
                                               file_data, output_format),
                             GenerateTemplateUseCase_execute(disk, file_data, next_month_file),
                             next_month_file)]
    /\ next_month_file' = run'.exit.file
    /\ UNCHANGED <<exchange_rates, ret, file_data, report, heap, result_ref, call>>

NextMain ==
    \E command \in Commands, output_format \in Formats, asset_file_exists \in BOOLEAN,
       fetched \in {Ok(t) : t \in UseCaseTables} \cup {Raise("Exception", "fetch failed")},
       disk \in Disks :
        Main(command, output_format, asset_file_exists, fetched, disk)

SpecMain == InitMain /\ [][NextMain]_vars

MainRun == run.use_case = "main"

\* the analysis of the run produced its report and its summary
AnalysisSucceeded ==
    /\ run.fetched.kind = "ok"
    /\ analyze_profit_loss(run.fetched.value, file_data).kind = "ok"
    /\ get_portfolio_summary(file_data).kind = "ok"

\* the template of the run was made and the write of the next-month file
\* took place
TemplateSucceeded ==
    /\ Loaded.kind = "ok"
    /\ prepare_next_month_portfolio(Loaded.value).kind = "ok"
    /\ run.disk = "ok"

\* C25: a run of the command line exits with 0 exactly when the
\* configuration is valid, the services could be built and every operation
\* the command asks for succeeded (both of them for the command both), and
\* with 1 otherwise.
C25_ExitCode ==
    MainRun =>
        /\ run.exit.exit_code \in {0, 1}
        /\ run.exit.exit_code = 0 <=>
               /\ run.asset_file_exists
               /\ run.fetched.kind = "ok"
               /\ run.command \in {"analyze", "both"} => AnalysisSucceeded
               /\ run.command \in {"template", "both"} => TemplateSucceeded

----------------------------------------------------------------------------
(* The order of load and write in generate_next_month_template *)

\* C26: a run of the template use case over a portfolio file that does not
\* load leaves the next-month file as it was: nothing is written or
\* overwritten before the portfolio has been loaded and rolled forward.
C26_WriteOnlyAfterLoad ==
    [][(run'.use_case = "generate_template" /\ Loaded.kind = "raise") =>
            next_month_file' = next_month_file]_vars

----------------------------------------------------------------------------
(* Portfolio objects: heap[i] is the list _assets of the Portfolio with identity i *)

MaxPortfolios == 2

add_asset_unchecked(assets, asset) ==
    [assets |-> Append(assets, asset), result |-> Ok(0)]

\* Portfolio.add_asset on the list _assets: the list afterwards and the outcome
add_asset(assets, asset) ==
    IF \E i \in 1..Len(assets) : assets[i].name = asset.name
    THEN [assets |-> assets, result |-> ValueError("Asset with name already exists")]
    ELSE [assets |-> Append(assets, asset), result |-> Ok(0)]

\* Portfolio.remove_asset
remove_asset(assets, asset_name) ==
    [assets |-> SelectSeq(assets, LAMBDA asset : asset.name # asset_name),
     result |-> Ok(0)]

LifeNames == {"A", "B"}

\* the assets handed to the constructor and to add_asset; two of them share a name
LifeAssets ==
    {Asset("A", STOCK, USD, Amt(5, 0), Amt(1, 2)).value,
     Asset("A", CREDIT_CARD, CNY, Amt(1, 0), Amt(1, 2)).value,
     Asset("B", STOCK, USD, Amt(5, 0), Amt(1, 2)).value}

\* the portfolios that Portfolio(assets) constructs
LifePortfolios ==
    {r.value : r \in {p \in {Portfolio(assets) :
                               assets \in UNION {[1..n -> LifeAssets] : n \in 0..MaxAssets}} :
                        p.kind = "ok"}}

ModelCall(op, self, asset, asset_name, result) ==
    [op |-> op, self |-> self, asset |-> asset, asset_name |-> asset_name, result |-> result]

InitPortfolioLife ==
    /\ heap \in {<<portfolio>> : portfolio \in LifePortfolios}
    /\ call = NoModelCall
    /\ result_ref = NoRollForward
    /\ exchange_rates = <<>>
    /\ ret = NoCall
    /\ file_data = None
    /\ report = NotRun
    /\ next_month_file = NoFile
    /\ run = NoExecution

\* portfolio.add_asset(asset) on the object self
AddAsset(self, asset) ==
    LET added == add_asset(heap[self], asset)
    IN  /\ Len(heap[self]) <= MaxAssets
        /\ heap' = [heap EXCEPT ![self] = added.assets]
        /\ call' = ModelCall("add_asset", self, asset, asset.name, added.result)
        /\ UNCHANGED <<exchange_rates, ret, file_data, report, result_ref,
                       next_month_file, run>>

\* portfolio.remove_asset(asset_name) on the object self
RemoveAsset(self, asset_name) ==
    LET removed == remove_asset(heap[self], asset_name)
    IN  /\ heap' = [heap EXCEPT ![self] = removed.assets]
        /\ call' = ModelCall("remove_asset", self, <<>>, asset_name, removed.result)
        /\ UNCHANGED <<exchange_rates, ret, file_data, report, result_ref,
                       next_month_file, run>>

\* portfolio.prepare_next_month_portfolio() on the object self: the Portfolio
\* it returns is a new object
PrepareNextMonthPortfolio(self) ==
    LET prepared == prepare_next_month_portfolio(heap[self])
    IN  /\ Len(heap) < MaxPortfolios
        /\ heap' = IF prepared.kind = "raise" THEN heap ELSE Append(heap, prepared.value)
        /\ call' = ModelCall("prepare_next_month_portfolio", self, <<>>, "",
                             IF prepared.kind = "raise" THEN prepared ELSE Ok(Len(heap) + 1))
        /\ UNCHANGED <<exchange_rates, ret, file_data, report, result_ref,
                       next_month_file, run>>

NextPortfolioLife ==
    \/ \E self \in 1..Len(heap), asset \in LifeAssets : AddAsset(self, asset)
    \/ \E self \in 1..Len(heap), asset_name \in LifeNames : RemoveAsset(self, asset_name)
    \/ \E self \in 1..Len(heap) : PrepareNextMonthPortfolio(self)

SpecPortfolioLife == InitPortfolioLife /\ [][NextPortfolioLife]_vars

HasName(assets, asset_name) == \E i \in 1..Len(assets) : assets[i].name = asset_name

UniqueNames(assets) ==
    \A i \in 1..Len(assets), j \in 1..Len(assets) : assets[i].name = assets[j].name => i = j

\* C27: in every state no Portfolio holds two assets of one name; add_asset
\* with a name the portfolio holds raises ValueError and changes no
\* portfolio, add_asset with a new name appends the asset, and remove_asset
\* of a name the portfolio does not hold changes no portfolio.
C27_NamesStayUnique ==
    /\ [](\A i \in 1..Len(heap) : UniqueNames(heap[i]))
    /\ [][/\ call'.op = "add_asset" =>
                IF HasName(heap[call'.self], call'.asset_name)
                THEN /\ call'.result.kind = "raise"
                     /\ call'.result.error = "ValueError"
                     /\ heap' = heap
                ELSE /\ call'.result.kind = "ok"
                     /\ heap' = [heap EXCEPT ![call'.self] = Append(@, call'.asset)]
          /\ (call'.op = "remove_asset" /\ ~HasName(heap[call'.self], call'.asset_name)) =>
                heap' = heap]_vars

\* add_asset was refused on a rolled-forward portfolio that holds the name
C27_Witness ==
    /\ call.op = "add_asset"
    /\ call.self = 2
    /\ call.result.kind = "raise"
    /\ Len(heap[2]) = 2

\* the asset that follows an asset in the next month: a credit card keeps its
\* balances, any other asset starts at zero with the old balance as previous
NextMonthOf(asset) ==
    [name |-> asset.name, asset_type |-> asset.asset_type, currency |-> asset.currency,
     current_balance |-> IF asset.asset_type = CREDIT_CARD THEN asset.current_balance ELSE 0,
     previous_balance |-> IF asset.asset_type = CREDIT_CARD
                          THEN asset.previous_balance
                          ELSE asset.current_balance]

\* C28: prepare_next_month_portfolio of a Portfolio returns, and what it
\* returns is a new Portfolio of the same size whose i-th asset is the
\* roll-forward of the i-th asset of the original (so the names are the same
\* in the same order); the original and every other Portfolio stay as they
\* were, assets included.
C28_PrepareLeavesOriginal ==
    [][call'.op = "prepare_next_month_portfolio" =>
          /\ call'.result.kind = "ok"
          /\ call'.result.value = Len(heap) + 1
          /\ Len(heap') = Len(heap) + 1
          /\ \A i \in 1..Len(heap) : heap'[i] = heap[i]
          /\ Len(heap'[Len(heap')]) = Len(heap[call'.self])
          /\ \A k \in 1..Len(heap[call'.self]) :
                 heap'[Len(heap')][k] = NextMonthOf(heap[call'.self][k])]_vars

\* a portfolio of a stock and a credit card was rolled forward
C28_Witness ==
    /\ call.op = "prepare_next_month_portfolio"
    /\ call.result.kind = "ok"
    /\ Len(heap) = 2
    /\ Len(heap[1]) = 2
    /\ TypesOf(heap[1]) = {STOCK, CREDIT_CARD}
    /\ heap[2] # heap[1]

----------------------------------------------------------------------------
(* The rate table over the life of a service *)

\* C29: the table a service got at construction is left as it is by convert,
\* get_exchange_rate and is_supported_currency_pair; it changes only in a
\* refresh_rates that returns, and a refresh_rates whose fetch fails raises
\* ExchangeRateError and leaves the table that was loaded before.
C29_TableChangesOnlyOnRefresh ==
    [][/\ exchange_rates' # exchange_rates =>
              (ret'.op = "refresh_rates" /\ ret'.result.kind = "ok")
       /\ ret'.op \in {"convert", "get_exchange_rate", "is_supported_currency_pair"} =>
              exchange_rates' = exchange_rates
       /\ (ret'.op = "refresh_rates" /\ ret'.result.kind = "raise") =>
              /\ ret'.result.error = "ExchangeRateError"
              /\ exchange_rates' = exchange_rates]_vars

\* a refresh failed on a service that holds a rate
C29_Witness ==
    /\ ret.op = "refresh_rates"
    /\ ret.result.kind = "raise"
    /\ DOMAIN exchange_rates # {}

CallIsSupported ==
    is_supported_currency_pair(exchange_rates, ret.from_currency, ret.to_currency)

\* C30 as stated: convert returns an amount for every pair for which
\* is_supported_currency_pair is true.
C30_AsStated ==
    (ret.op = "convert" /\ CallIsSupported) => ret.result.kind = "ok"

\* C30: for a pair for which is_supported_currency_pair is true, convert
\* returns an amount when the currencies are the same or the stored rate is
\* positive, and raises the invalid-rate error when the stored rate is zero
\* or negative.
C30_SupportedAndPositive ==
    (ret.op = "convert" /\ CallIsSupported) =>
        IF ret.from_currency = ret.to_currency \/ CallRate > 0
        THEN ret.result.kind = "ok"
        ELSE RaisedInvalidRate(ret.result)

\* convert was called on a supported pair whose stored rate is negative
C30_Witness ==
    /\ ret.op = "convert"
    /\ CrossCurrencyCall
    /\ CallIsSupported
    /\ CallRate < 0
    /\ RaisedInvalidRate(ret.result)

====
